---- MODULE Spec2Model ----
(***************************************************************************)
(* KeywordsNews: the news aggregation service (newsService.ts and its      *)
(* earlier revisions kept in the repository) and the saved articles of the *)
(* news context.                                                           *)
(*                                                                         *)
(* The module holds several specifications over one set of variables:      *)
(*   SpecRL     the RateLimiter class on its own (add / settle / release)  *)
(*   SpecFetch  one call of fetchRssFeed, relay by relay, in each revision *)
(*   Spec       runs of the aggregate entry points over cache and sources  *)
(*   SpecMerge  the duplicate filter and sort applied to a fetched batch   *)
(*   SpecSM     the per-source statistics and the decision to skip         *)
(*   SpecRLFair SpecRL with tasks that settle and slots that are released  *)
(*   SpecSort   the sort of a fetched list, dates that do not parse too    *)
(*   SpecQuota  Spec and the part_007 entry point, localStorage full       *)
(*   SpecHang   newsService.ts with one source that may never answer       *)
(*   SpecStaged fetchNewsProgressively and the batched entry point         *)
(*   SpecFew    fetchNewsProgressively over source lists of 1..NumSources  *)
(*   SpecCorrupt every entry point over a stored payload that may not parse *)
(*   SpecSaved  saveArticle and removeFromSaved of the news context        *)
(* Each specification leaves the variables of the others at their idle     *)
(* values.                                                                 *)
(***************************************************************************)
EXTENDS Integers, Sequences, FiniteSets, TLC

VARIABLES
    queue,      \* RateLimiter.queue: task ids waiting, oldest first
    running,    \* RateLimiter.running
    tstate,     \* per task: "new" | "queued" | "running" | "finishing" | "done"
    tresult,    \* per task: settlement of the promise returned by add()
    \* the sort step on its own
    sIn,        \* the articles as the sources delivered them, source by source
    sRev,       \* "plain" (newsService.ts) or "enhanced" (part_006:642)
    spc,        \* "off", "input", "sorted"
    sOut,       \* the list the run returns
    submitted,  \* history: the tasks given to add(), in the order of the calls
    started,    \* history: the tasks whose task() was called, in that order
    taskEnd,    \* history: per task, how the promise of task() itself settled
    fv,         \* fetchRssFeed: the revision of the function that is running
    fpc,        \* fetchRssFeed: "idle" | "waiting" | "sleeping" | "resolved" | "rejected"
    frelay,     \* fetchRssFeed: per relay "idle" | "pending" | "ok" | "failed"
    fcur,       \* fetchRssFeed: index of the relay being tried (sequential revisions)
    fattempt,   \* fetchWithRetry: the loop variable attempt
    freqs,      \* fetchWithRetry: axios.get calls made by the current call
    fvalue,     \* fetchRssFeed: the list the promise resolved to
    fgood,      \* history: some relay delivered a feed with at least one item
    fanswer,    \* history: kind of the latest response fetchWithRetry got
    svRev,      \* revision of the news context: "append" | "prepend"
    savedArticles, \* the savedArticles state of the news context
    svLast,     \* history: the latest call on the saved list
    variant,    \* which aggregate entry point runs: "parallel" | "progressive" |
                \* "limited" | "basic" | "batched"
    clock,      \* wall clock (Date.now()), in minutes
    cacheData,  \* localStorage[CACHE_KEY]: [present, list]
    cacheTs,    \* localStorage[CACHE_TIMESTAMP_KEY]; -1 when the key is absent
    pc,         \* the run: "idle" | "priority" | "remaining" | "fetching" | "done"
    runNo,      \* number of runs started
    now,        \* the run's local now (newsService.ts:129, 221)
    sstate,     \* per source: "idle" | "inflight" | "settled" | "late" | "lateDone"
    fetched,    \* per source: what the run got for it, [ok, value]
    allArticles,\* fetchNewsProgressively: the accumulated list
    snapshots,  \* the onProgress calls of the run, in order
    issued,     \* history: the sources in the order their fetch was started
    outcome,    \* settlement of the run's promise: "none" | "resolved" | "rejected"
    returned,   \* the list the run resolved to
    viaCache,   \* history: the run returned from the fresh-cache branch
    storageFull,\* localStorage is at its quota: setItem may throw
    answers,    \* history: per source, the response that decided its fetch
    cacheAtStart, \* history: the cache entry the run found, [data, ts]
    prevIssued, \* history: the sources the run before fetched, in order
    cacheBy,    \* history: the runs that wrote the stored payload and timestamp
                \* [data, ts]; 0: written before the first run
    configured, \* news_sources.length as fetchNewsProgressively sees it
    written,    \* history: how the storage writes of the run ended; "none": no write
    \* the merge step on its own
    mbatch,     \* the fetched articles, in the order allSettled yields them
    mpc,        \* "off", "input", "once", "twice"
    mOnce,      \* the merge of the batch
    mTwice,     \* the merge of the batch followed by the batch again
    \* SourceManager
    smStats,    \* per source: [successRate, consecutiveFailures, lastSuccessAt]
    smClock,    \* the time, in minutes
    smFetch,    \* per source in the run: "none", "skipped", "inflight", "fetched"
    smSeen,     \* history: the statistics the run started with
    smStarted,  \* history: the time the run started at
    smRuns      \* the runs started so far

rlVars == <<queue, running, tstate, tresult>>
fetchVars == <<fv, fpc, frelay, fcur, fattempt, freqs, fvalue, fgood, fanswer>>

aggVars == <<variant, clock, cacheData, cacheTs, cacheBy, pc, runNo, now, sstate, fetched,
             allArticles, snapshots, issued, outcome, returned, viaCache, storageFull,
             answers, cacheAtStart, prevIssued, written, configured>>

mergeVars == <<mbatch, mpc, mOnce, mTwice>>

smVars == <<smStats, smClock, smFetch, smSeen, smStarted, smRuns>>

rlHistVars == <<submitted, started, taskEnd>>

sortVars == <<sIn, sRev, spc, sOut>>

savedVars == <<svRev, savedArticles, svLast>>

vars == <<queue, running, tstate, tresult,
          fv, fpc, frelay, fcur, fattempt, freqs, fvalue, fgood, fanswer,
          svRev, savedArticles, svLast,
          variant, clock, cacheData, cacheTs, cacheBy, pc, runNo, now, sstate, fetched,
          allArticles, snapshots, issued, outcome, returned, viaCache, storageFull,
          answers, cacheAtStart, prevIssued, written, configured, mbatch, mpc, mOnce, mTwice,
          smStats, smClock, smFetch, smSeen, smStarted, smRuns, submitted, started, taskEnd,
          sIn, sRev, spc, sOut>>

----------------------------------------------------------------------------
(* Bounds *)
MaxTasks == 5           \* tasks submitted to a stand-alone RateLimiter

MaxFeedLen == 2         \* items in one feed
NumSources == 4         \* news_sources.length
MaxRuns == 2            \* runs of the aggregate entry point in one behaviour
MaxTicks == 1            \* minutes the clock advances in one behaviour
MaxFailures == 5        \* failures in a row that the statistics count up to
MaxSaved == 2           \* length of the saved list a session starts from

(* Program constants *)
CONCURRENT_REQUESTS == 3
MAX_RETRIES == 2
MAX_ARTICLES_PER_SOURCE == 50
PRIORITY_COUNT == 3             \* news_sources.slice(0, 3)
CACHE_DURATION_FAST == 2        \* newsService.ts:45, minutes
CACHE_DURATION_ENHANCED == 5    \* part_006:303, minutes
batchSize == 3                  \* newsService.ts:547

----------------------------------------------------------------------------
(* RateLimiter (part_006:603-639)                                          *)

RLTasks == 1..MaxTasks

\* RateLimiter.process: the guard of line 625.
processBlockedOffByOne(q, r) == r > CONCURRENT_REQUESTS \/ Len(q) = 0
processBlocked(q, r) == r >= CONCURRENT_REQUESTS \/ Len(q) = 0

\* RateLimiter.process up to its await: running++, queue.shift(), task()
\* is called and so starts.  One invocation takes at most one task.
processNewestFirst(q, r, ts) ==
    IF processBlocked(q, r)
    THEN [q |-> q, r |-> r, ts |-> ts]
    ELSE [q |-> SubSeq(q, 1, Len(q) - 1), r |-> r + 1,
          ts |-> [ts EXCEPT ![q[Len(q)]] = "running"]]
process(q, r, ts) ==
    IF processBlocked(q, r)
    THEN [q |-> q, r |-> r, ts |-> ts]
    ELSE [q |-> Tail(q), r |-> r + 1, ts |-> [ts EXCEPT ![Head(q)] = "running"]]

\* the task that one invocation of process() has started, if any
startedBy(old, ts) ==
    LET new == {t \in DOMAIN ts : ts[t] = "running" /\ old[t] # "running"}
    IN  IF new = {} THEN <<>> ELSE <<CHOOSE t \in new : TRUE>>

\* RateLimiter.add: push the wrapper, then process().
add(q, r, ts, t) ==
    process(Append(q, t), r, [ts EXCEPT ![t] = "queued"])

RLIdle ==
    /\ queue = <<>>
    /\ running = 0
    /\ tstate = <<>>
    /\ tresult = <<>>

RLHistIdle ==
    /\ submitted = <<>>
    /\ started = <<>>
    /\ taskEnd = <<>>

RLInit ==
    /\ queue = <<>>
    /\ running = 0
    /\ tstate = [t \in RLTasks |-> "new"]
    /\ tresult = [t \in RLTasks |-> "pending"]
    /\ submitted = <<>>
    /\ started = <<>>
    /\ taskEnd = [t \in RLTasks |-> "pending"]

\* a caller submits task t; the tasks are numbered by their call of add()
RLAdd(t) ==
    /\ tstate[t] = "new"
    /\ t = Len(submitted) + 1
    /\ LET n == add(queue, running, tstate, t)
       IN  /\ queue' = n.q
           /\ running' = n.r
           /\ tstate' = n.ts
           /\ submitted' = Append(submitted, t)
           /\ started' = started \o startedBy(tstate, n.ts)
    /\ UNCHANGED <<tresult, taskEnd>>
    /\ UNCHANGED <<fetchVars, aggVars, mergeVars, smVars, sortVars, savedVars>>

\* the started task t settles; the wrapper of add() resolves or rejects the
\* promise that add() returned (lines 612-617)
RLSettleSwallows(t, how) ==
    /\ tstate[t] = "running"
    /\ tstate' = [tstate EXCEPT ![t] = "finishing"]
    /\ tresult' = [tresult EXCEPT ![t] = "fulfilled"]
    /\ taskEnd' = [taskEnd EXCEPT ![t] = how]
    /\ UNCHANGED <<queue, running, submitted, started>>
    /\ UNCHANGED <<fetchVars, aggVars, mergeVars, smVars, sortVars, savedVars>>

RLSettle(t, how) ==
    /\ tstate[t] = "running"
    /\ tstate' = [tstate EXCEPT ![t] = "finishing"]
    /\ tresult' = [tresult EXCEPT ![t] = how]
    /\ taskEnd' = [taskEnd EXCEPT ![t] = how]
    /\ UNCHANGED <<queue, running, submitted, started>>
    /\ UNCHANGED <<fetchVars, aggVars, mergeVars, smVars, sortVars, savedVars>>

\* the finally block of the process() invocation that ran t (lines 634-637)
RLReleaseLeavesQueue(t) ==
    /\ tstate[t] = "finishing"
    /\ running' = running - 1
    /\ tstate' = [tstate EXCEPT ![t] = "done"]
    /\ UNCHANGED <<queue, tresult, submitted, started, taskEnd>>
    /\ UNCHANGED <<fetchVars, aggVars, mergeVars, smVars, sortVars, savedVars>>

RLRelease(t) ==
    /\ tstate[t] = "finishing"
    /\ LET n == process(queue, running - 1, [tstate EXCEPT ![t] = "done"])
       IN  /\ queue' = n.q
           /\ running' = n.r
           /\ tstate' = n.ts
           /\ started' = started \o startedBy(tstate, n.ts)
    /\ UNCHANGED <<tresult, submitted, taskEnd>>
    /\ UNCHANGED <<fetchVars, aggVars, mergeVars, smVars, sortVars, savedVars>>

----------------------------------------------------------------------------
(* Feed items and articles                                                 *)

\* What a feed item carries (the CustomItem type).  "" is a missing field.
ItemA1 == [title |-> "A", link |-> "L1", pubDate |-> 1, guid |-> ""]
ItemA2 == [title |-> "A", link |-> "L2", pubDate |-> 1, guid |-> ""]
ItemB == [title |-> "B", link |-> "L3", pubDate |-> 2, guid |-> ""]
ItemNoLink == [title |-> "C", link |-> "", pubDate |-> 2, guid |-> ""]
ItemNoTitle == [title |-> "", link |-> "L4", pubDate |-> 1, guid |-> ""]
\* another story published under the link of A
ItemSameLink == [title |-> "E", link |-> "L1", pubDate |-> 2, guid |-> ""]
\* a pubDate string that new Date() cannot parse is written -1
ItemBadDate == [title |-> "D", link |-> "L5", pubDate |-> -1, guid |-> ""]

Items == {ItemA1, ItemA2, ItemB, ItemNoLink, ItemNoTitle, ItemSameLink}

RECURSIVE SeqsUpTo(_, _)
SeqsUpTo(S, n) ==
    IF n = 0 THEN {<<>>}
    ELSE LET shorter == SeqsUpTo(S, n - 1)
         IN  shorter \cup {Append(q, x) : q \in {r \in shorter : Len(r) = n - 1}, x \in S}

Feeds == SeqsUpTo(Items, MaxFeedLen)

\* What one axios.get through a relay can come back with.
Failure(k) == [kind |-> k, items |-> <<>>]
Feed(f) == [kind |-> "feed", items |-> f]
Responses ==
    {Failure(k) : k \in {"neterr", "http404", "empty", "nonstring", "garbage"}}
        \cup {Feed(f) : f \in Feeds}

\* uuidv4(): a value no other call returns; which call made it is the value.
uuidv4(run, src, k) == [kind |-> "uuid", s |-> "", run |-> run, src |-> src, k |-> k]
StrId(s) == [kind |-> "str", s |-> s, run |-> 0, src |-> 0, k |-> 0]

\* normalizeDate (part_006:429-438): an unparsable date becomes the time of
\* the call, which lies after the dates of the feed
NowDate == 3
normalizeDate(d) == IF d = -1 THEN NowDate ELSE d

Take(q, n) == SubSeq(q, 1, IF Len(q) < n THEN Len(q) ELSE n)

\* feed.items.map(...) of newsService.ts:84-105 (also part_006:87-109)
mapItemsPlain(items, src, run) ==
    [k \in 1..Len(items) |->
        [id |-> uuidv4(run, src, k),
         title |-> IF items[k].title = "" THEN "Untitled" ELSE items[k].title,
         link |-> items[k].link,
         pubDate |-> items[k].pubDate,
         source |-> src]]

\* newsService.ts:450-482: the same map, then filter(title && link)
mapItemsFiltered(items, src, run) ==
    LET Keep(a) == a.title # "" /\ a.link # ""
    IN  SelectSeq(mapItemsPlain(items, src, run), Keep)

\* part_006:515-532: slice, map with id = guid || link || uuidv4(), filter
mapItemsEnhanced(items, src, run) ==
    LET cut == Take(items, MAX_ARTICLES_PER_SOURCE)
        mapped == [k \in 1..Len(cut) |->
            [id |-> IF cut[k].guid # "" THEN StrId(cut[k].guid)
                    ELSE IF cut[k].link # "" THEN StrId(cut[k].link)
                    ELSE uuidv4(run, src, k),
             title |-> IF cut[k].title = "" THEN "Untitled" ELSE cut[k].title,
             link |-> cut[k].link,
             pubDate |-> normalizeDate(cut[k].pubDate),
             source |-> src]]
        Keep(a) == a.title # "Untitled" /\ a.link # ""
    IN  SelectSeq(mapped, Keep)

----------------------------------------------------------------------------
(* fetchRssFeed, three revisions:                                          *)
(*   "any"      newsService.ts:60-121   relays raced with Promise.any      *)
(*   "seqDelay" newsService.ts:400-505  relays in turn, 1 s between them   *)
(*   "retry"    part_006:479-551        relays in turn through fetchWithRetry *)

FetchVersions == {"any", "seqDelay", "retry"}

\* CORS_PROXIES.length of each revision
NumRelays(v) == IF v = "retry" THEN 4 ELSE 2

Settled(ok, value) == [ok |-> ok, value |-> value]

\* The body of the try block for one relay, from the response to the
\* return or the throw.  ok = FALSE is a throw.
tryRelay(v, resp, src, run) ==
    CASE v = "any" ->
            \* lines 66-105: axios error, !response.data, parse error, no items
            IF resp.kind = "feed" /\ Len(resp.items) > 0
            THEN Settled(TRUE, mapItemsPlain(resp.items, src, run))
            ELSE Settled(FALSE, <<>>)
      [] v = "seqDelay" ->
            \* lines 412-485: axios error, not a string, no feed marker;
            \* a feed without items is mapped to an empty list and returned
            IF resp.kind = "feed"
            THEN Settled(TRUE, mapItemsFiltered(resp.items, src, run))
            ELSE Settled(FALSE, <<>>)
      [] v = "retry" ->
            \* lines 502-535 once fetchWithRetry has returned a string
            IF resp.kind = "feed" /\ Len(resp.items) > 0
            THEN Settled(TRUE, mapItemsEnhanced(resp.items, src, run))
            ELSE Settled(FALSE, <<>>)
      [] v = "seq" ->
            \* part_007:70-104: axios error or parse error; every item of
            \* the feed is mapped, a feed without items gives []
            IF resp.kind = "feed"
            THEN Settled(TRUE, mapItemsPlain(resp.items, src, run))
            ELSE Settled(FALSE, <<>>)

IsStringAlways(resp) == TRUE

\* fetchWithRetry returns response.data when it is a string (part_006:456-460)
IsString(resp) == resp.kind \in {"empty", "garbage", "feed"}

\* What fetchRssFeed does once every relay has failed.
allRelaysFailedAlwaysEmpty(v) == Settled(TRUE, <<>>)
allRelaysFailed(v) ==
    IF v = "retry"
    THEN Settled(FALSE, <<>>)       \* part_006:545-550 throw new NewsError
    ELSE Settled(TRUE, <<>>)        \* newsService.ts:117-120, 503-504,
                                    \* part_007:113-115 return []

FetchIdle ==
    /\ fv = "none"
    /\ fpc = "idle"
    /\ frelay = <<>>
    /\ fcur = 0
    /\ fattempt = 0
    /\ freqs = 0
    /\ fvalue = <<>>
    /\ fgood = FALSE
    /\ fanswer = "none"

FetchInit ==
    /\ fv \in FetchVersions
    /\ fpc = "idle"
    /\ frelay = [i \in 1..NumRelays(fv) |-> "idle"]
    /\ fcur = 0
    /\ fattempt = 0
    /\ freqs = 0
    /\ fvalue = <<>>
    /\ fgood = FALSE
    /\ fanswer = "none"

Finish(r) ==
    /\ fpc' = IF r.ok THEN "resolved" ELSE "rejected"
    /\ fvalue' = r.value

\* the call itself, up to its first await
FetchStart(urlOk) ==
    /\ fpc = "idle"
    /\ IF fv = "retry" /\ ~urlOk
       THEN \* part_006:480-482 throw new NewsError("Invalid URL ...")
            /\ Finish(Settled(FALSE, <<>>))
            /\ UNCHANGED <<frelay, fcur, freqs>>
       ELSE IF fv = "any"
       THEN \* every relay is asked at once
            /\ frelay' = [i \in DOMAIN frelay |-> "pending"]
            /\ fpc' = "waiting"
            /\ UNCHANGED <<fcur, freqs, fvalue>>
       ELSE /\ frelay' = [frelay EXCEPT ![1] = "pending"]
            /\ fcur' = 1
            /\ freqs' = 1
            /\ fpc' = "waiting"
            /\ UNCHANGED fvalue
    /\ UNCHANGED <<fv, fattempt, fgood, fanswer>>
    /\ UNCHANGED <<rlVars, rlHistVars, aggVars, mergeVars, smVars, sortVars, savedVars>>

\* "any": relay i answers.  Promise.any settles with the first fulfilment,
\* or, once every relay has rejected, the catch returns [].
FetchAnyResponds(i, resp) ==
    /\ fv = "any"
    /\ frelay[i] = "pending"
    /\ LET r == tryRelay(fv, resp, 1, 1)
           after == [frelay EXCEPT ![i] = IF r.ok THEN "ok" ELSE "failed"]
       IN  /\ frelay' = after
           /\ fgood' = (fgood \/ r.ok)
           /\ IF fpc = "waiting" /\ r.ok
              THEN Finish(r)
              ELSE IF fpc = "waiting" /\ \A j \in DOMAIN after : after[j] = "failed"
              THEN Finish(allRelaysFailed(fv))
              ELSE UNCHANGED <<fpc, fvalue>>
    /\ UNCHANGED <<fv, fcur, fattempt, freqs, fanswer>>
    /\ UNCHANGED <<rlVars, rlHistVars, aggVars, mergeVars, smVars, sortVars, savedVars>>

\* the loop moves to the next relay, or leaves the loop after the last one;
\* fr is frelay with the answer of the current relay recorded
NextRelay(sleep, fr) ==
    IF fcur = NumRelays(fv)
    THEN /\ Finish(allRelaysFailed(fv))
         /\ frelay' = fr
         /\ UNCHANGED <<fcur, fattempt, freqs>>
    ELSE /\ fpc' = IF sleep THEN "sleeping" ELSE "waiting"
         /\ frelay' = IF sleep THEN fr ELSE [fr EXCEPT ![fcur + 1] = "pending"]
         /\ fcur' = fcur + 1
         /\ fattempt' = 0
         /\ freqs' = IF sleep THEN 0 ELSE 1
         /\ UNCHANGED fvalue

\* "seqDelay": the relay being tried answers
FetchSeqResponds(resp) ==
    /\ fv = "seqDelay"
    /\ fpc = "waiting"
    /\ LET r == tryRelay(fv, resp, 1, 1)
           fr == [frelay EXCEPT ![fcur] = IF r.ok THEN "ok" ELSE "failed"]
       IN  /\ fgood' = (fgood \/ (r.ok /\ Len(resp.items) > 0))
           /\ IF r.ok
              THEN Finish(r) /\ frelay' = fr /\ UNCHANGED <<fcur, fattempt, freqs>>
              ELSE NextRelay(TRUE, fr)
    /\ UNCHANGED <<fv, fanswer>>
    /\ UNCHANGED <<rlVars, rlHistVars, aggVars, mergeVars, smVars, sortVars, savedVars>>

\* "retry": one axios.get of fetchWithRetry (part_006:448-473) answers
FetchRetryResponds(resp) ==
    /\ fv = "retry"
    /\ fpc = "waiting"
    /\ IF IsString(resp)
       THEN LET r == tryRelay(fv, resp, 1, 1)
                fr == [frelay EXCEPT ![fcur] = IF r.ok THEN "ok" ELSE "failed"]
            IN  /\ fgood' = (fgood \/ r.ok)
                /\ IF r.ok
                   THEN Finish(r) /\ frelay' = fr /\ UNCHANGED <<fcur, fattempt, freqs>>
                   ELSE NextRelay(FALSE, fr)
       ELSE IF fattempt = MAX_RETRIES \/ resp.kind = "http404"
       THEN \* fetchWithRetry throws; the catch of fetchRssFeed continues
            /\ NextRelay(FALSE, [frelay EXCEPT ![fcur] = "failed"])
            /\ UNCHANGED fgood
       ELSE \* next attempt, after sleep(RETRY_DELAY * 2^(attempt - 1))
            /\ fattempt' = fattempt + 1
            /\ fpc' = "sleeping"
            /\ UNCHANGED <<frelay, fcur, freqs, fvalue, fgood>>
    /\ fanswer' = resp.kind
    /\ UNCHANGED fv
    /\ UNCHANGED <<rlVars, rlHistVars, aggVars, mergeVars, smVars, sortVars, savedVars>>

\* a sleep ends and the next axios.get is made
FetchWake ==
    /\ fpc = "sleeping"
    /\ fpc' = "waiting"
    /\ freqs' = freqs + 1
    /\ frelay' = [frelay EXCEPT ![fcur] = "pending"]
    /\ UNCHANGED <<fv, fcur, fattempt, fvalue, fgood, fanswer>>
    /\ UNCHANGED <<rlVars, rlHistVars, aggVars, mergeVars, smVars, sortVars, savedVars>>

FetchNext ==
    \/ \E u \in BOOLEAN : FetchStart(u)
    \/ \E i \in DOMAIN frelay : \E resp \in Responses : FetchAnyResponds(i, resp)
    \/ \E resp \in Responses : FetchSeqResponds(resp)
    \/ \E resp \in Responses : FetchRetryResponds(resp)
    \/ FetchWake

----------------------------------------------------------------------------
(* The aggregate entry points:                                             *)
(*   "parallel"     newsService.ts:124-211  fetchNewsFromAllSources        *)
(*   "progressive"  newsService.ts:214-305  fetchNewsProgressively         *)
(*   "limited"      part_006:642-741        fetchNewsFromAllSources behind *)
(*                                          the RateLimiter                *)

Variants == {"parallel", "progressive", "limited"}

\* with fetchNewsFromAllSources of part_007:118-163
AllVariants == Variants \cup {"basic"}

\* the batch a source belongs to, counted from 0 (newsService.ts:550-551:
\* news_sources.slice(i, i + batchSize) for i = 0, batchSize, ...)
batchOf(s) == (s - 1) \div batchSize

Sources == 1..NumSources

\* news_sources.slice(0, 3) and news_sources.slice(3)
prioritySourcesShifted == {s \in Sources : s > 1 /\ s <= PRIORITY_COUNT + 1}
prioritySources == {s \in Sources : s <= PRIORITY_COUNT /\ s <= configured}
remainingSources == {s \in Sources : s > PRIORITY_COUNT /\ s <= configured}

\* the sources of a set, in configured order
RECURSIVE InOrder(_)
InOrder(S) ==
    IF S = {} THEN <<>>
    ELSE LET m == CHOOSE x \in S : \A y \in S : x <= y
         IN  <<m>> \o InOrder(S \ {m})

\* which fetchRssFeed the entry point calls
fetchVersion(v) ==
    CASE v = "limited" -> "retry"
      [] v = "batched" -> "seqDelay"
      [] v = "basic" -> "seq"
      [] OTHER -> "any"

CACHE_DURATION(v) ==
    \* part_007:46 and newsService.ts:360 are 5 minutes as well
    IF v \in {"limited", "basic", "batched"} THEN CACHE_DURATION_ENHANCED ELSE CACHE_DURATION_FAST

StartClock == CACHE_DURATION_ENHANCED

\* What the feed of a source can hold while the model runs: source 1 and
\* source 2 carry the same story A, under one link or under two, and source
\* 2 a newer story B as well.
FeedsOf(s) ==
    CASE s = 1 -> {<<ItemA1>>}
      [] s = 2 -> {<<ItemA1, ItemB>>, <<ItemA2, ItemB>>}
      [] OTHER -> {<<ItemA2>>}

\* What decides fetchRssFeed(source s): no relay succeeds, or one delivers
\* the feed.
AggResponses(s) == {Failure("neterr")} \cup {Feed(f) : f \in FeedsOf(s)}

\* The settlement of fetchRssFeed(source) when resp is the answer of the
\* relay that decides the call: the first relay to succeed, or a failure
\* when none does.
fetchRssFeed(v, resp, src, run) ==
    LET r == tryRelay(v, resp, src, run)
    IN  IF r.ok THEN r ELSE allRelaysFailed(v)

\* Array.prototype.sort with (a, b) => date(b) - date(a): newest first,
\* stable (newsService.ts:172-178, 253-259, 276-282; part_006:712-714)
RECURSIVE InsertByDate(_, _)
InsertByDate(sorted, x) ==
    IF sorted = <<>> THEN <<x>>
    ELSE IF Head(sorted).pubDate >= x.pubDate
         THEN <<Head(sorted)>> \o InsertByDate(Tail(sorted), x)
         ELSE <<x>> \o sorted

RECURSIVE sortByDate(_)
sortByDate(q) ==
    IF q = <<>> THEN <<>>
    ELSE InsertByDate(sortByDate(SubSeq(q, 1, Len(q) - 1)), q[Len(q)])

\* results.forEach(... allArticles.push(...result.value)) and results.flat():
\* the fulfilled values of sources lo..hi, in source order
RECURSIVE flatAllOrNothing(_, _, _)
flatAllOrNothing(f, lo, hi) ==
    IF \E s \in lo..hi : ~f[s].ok THEN <<>>
    ELSE IF lo > hi THEN <<>>
    ELSE f[lo].value \o flatAllOrNothing(f, lo + 1, hi)

RECURSIVE flat(_, _, _)
flat(f, lo, hi) ==
    IF lo > hi THEN <<>>
    ELSE (IF f[lo].ok THEN f[lo].value ELSE <<>>) \o flat(f, lo + 1, hi)

\* part_006:705-709: keep an article when no earlier one has its title and link
sameStoryByTitleAndSource(a, b) == a.title = b.title /\ a.source = b.source
sameStoryAcrossSources(a, b) ==
    a.title = b.title /\ a.link = b.link /\ a.source # b.source
sameStory(a, b) == a.title = b.title /\ a.link = b.link

RECURSIVE uniqueFrom(_, _)
uniqueFrom(arr, i) ==
    IF i > Len(arr) THEN <<>>
    ELSE (IF \E j \in 1..(i - 1) : sameStory(arr[j], arr[i]) THEN <<>> ELSE <<arr[i]>>)
            \o uniqueFrom(arr, i + 1)

uniqueArticlesKeepAll(arr) == arr
uniqueArticles(arr) == uniqueFrom(arr, 1)

\* part_006:704-714: the filter, then the sort
mergeArticles(arr) == sortByDate(uniqueArticles(arr))

\* new Date(pubDate).getTime() is NaN for an unparsable date, and so is the
\* value of the comparator; sort() takes NaN for 0
validDate(a) == a.pubDate # -1

\* the comparator is not a consistent comparison function: a record without
\* a date equals every record, and two of the others differ
inconsistent(q) ==
    /\ \E i \in DOMAIN q : ~validDate(q[i])
    /\ \E i, j \in DOMAIN q :
            validDate(q[i]) /\ validDate(q[j]) /\ q[i].pubDate # q[j].pubDate

Perms(q) ==
    {[i \in DOMAIN q |-> q[f[i]]] :
        f \in {g \in [DOMAIN q -> DOMAIN q] : \A i, j \in DOMAIN q : g[i] = g[j] => i = j}}

\* what allArticles.sort(...) can leave behind (newsService.ts:172-178):
\* with an inconsistent comparator the order is implementation-defined
sortOutcomes(q) ==
    IF \A i \in DOMAIN q : validDate(q[i]) THEN {sortByDate(q)}
    ELSE IF inconsistent(q) THEN Perms(q)
    ELSE {q}

\* the cache
NoCache == [present |-> FALSE, list |-> <<>>, parses |-> TRUE]
Cached(list) == [present |-> TRUE, list |-> list, parses |-> TRUE]

\* a stored payload on which JSON.parse throws
Corrupt == [present |-> TRUE, list |-> <<>>, parses |-> FALSE]

\* cachedTimestamp && (now - parseInt(cachedTimestamp)) < CACHE_DURATION
\* (newsService.ts:131, 223); CacheManager.isValid (part_006:579-587)
isValid(v, ts, t) == ts # -1 /\ (t - ts) < CACHE_DURATION(v)

cacheHitNever(v, data, ts, t) == FALSE

\* the fresh-cache branch is taken (newsService.ts:131-137; part_006:646-651)
cacheHit(v, data, ts, t) ==
    /\ isValid(v, ts, t)
    /\ data.present
    /\ (v = "limited" => Len(data.list) > 0)

\* How the two storage writes of a run can end: setItem throws only when
\* the quota is reached.
WriteOutcomes(v, full) ==
    IF ~full THEN {"ok"}
    ELSE IF v = "limited" THEN {"ok", "failData", "failTs", "failBoth"}
    ELSE {"ok", "failData", "failTs"}

\* localStorage after the writes (newsService.ts:184-189, 290-295: one try
\* around both setItem calls; part_006:717-719: CacheManager.set catches
\* for each key on its own)
dataAfterWriteLost(v, w, data, list) == data
dataAfterWrite(v, w, data, list) ==
    IF w \in {"ok", "failTs"} THEN Cached(list) ELSE data

tsAfterWrite(v, w, ts, t) ==
    IF w = "ok" \/ (v = "limited" /\ w = "failData") THEN t ELSE ts

\* which run wrote the stored payload and the stored timestamp, after the
\* writes of run ended as w
byAfterWrite(v, w, by, run) ==
    [data |-> IF dataAfterWrite(v, w, NoCache, <<>>).present THEN run ELSE by.data,
     ts |-> IF tsAfterWrite(v, w, -1, 0) = 0 THEN run ELSE by.ts]

\* a run that found N list(s) before: what Init may hold in the cache
OldList(v) ==
    sortByDate(fetchRssFeed(fetchVersion(v), Feed(<<ItemA1, ItemB>>), 1, 0).value)

Snapshot(list, complete, threw, settledBefore) ==
    [articles |-> list, isComplete |-> complete, threw |-> threw,
     settledBefore |-> settledBefore]

Done(s) == s \in {"settled", "late", "lateDone"}
SettledCount(ss) == Cardinality({s \in DOMAIN ss : ss[s] \in {"settled", "lateDone"}})

\* onProgress?.(articles, true) of the fresh-cache branch (newsService.ts:229)
cacheProgressPartial(list, threw, n) == Snapshot(list, FALSE, threw, n)
cacheProgress(list, threw, n) == Snapshot(list, TRUE, threw, n)

\* part_006:691-702: nothing was fetched; the stale entry if it holds
\* articles, else the empty list
staleFallbackThrows(data) ==
    IF data.present /\ Len(data.list) > 0
    THEN [outcome |-> "resolved", list |-> data.list]
    ELSE [outcome |-> "rejected", list |-> <<>>]
staleFallback(data) ==
    IF data.present /\ Len(data.list) > 0
    THEN [outcome |-> "resolved", list |-> data.list]
    ELSE [outcome |-> "resolved", list |-> <<>>]

AggIdle ==
    /\ variant = "none"
    /\ clock = 0
    /\ cacheData = NoCache
    /\ cacheTs = -1
    /\ pc = "idle"
    /\ runNo = 0
    /\ now = 0
    /\ sstate = <<>>
    /\ fetched = <<>>
    /\ allArticles = <<>>
    /\ snapshots = <<>>
    /\ issued = <<>>
    /\ outcome = "none"
    /\ returned = <<>>
    /\ viaCache = FALSE
    /\ storageFull = FALSE
    /\ answers = <<>>
    /\ cacheAtStart = [data |-> NoCache, ts |-> -1]
    /\ prevIssued = <<>>
    /\ configured = 0
    /\ cacheBy = [data |-> 0, ts |-> 0]
    /\ written = "none"

\* the state before the first run: the entry point is one of vs, full tells
\* whether localStorage is at its quota, news_sources holds one of ns
\* sources, and corrupt tells whether a stored payload is one that does not
\* parse
AggStart(vs, full, ns, corrupt) ==
    /\ variant \in vs
    /\ clock = StartClock
    /\ \/ cacheData = NoCache /\ cacheTs = -1
       \/ /\ cacheData = IF corrupt THEN Corrupt ELSE Cached(OldList(variant))
          /\ cacheTs \in {clock - CACHE_DURATION(variant), clock - CACHE_DURATION(variant) + 1}
    /\ pc = "idle"
    /\ runNo = 0
    /\ now = 0
    /\ sstate = [s \in Sources |-> "idle"]
    /\ fetched = [s \in Sources |-> Settled(FALSE, <<>>)]
    /\ allArticles = <<>>
    /\ snapshots = <<>>
    /\ issued = <<>>
    /\ outcome = "none"
    /\ returned = <<>>
    /\ viaCache = FALSE
    /\ storageFull = full
    /\ answers = [s \in Sources |-> Failure("none")]
    /\ cacheAtStart = [data |-> NoCache, ts |-> -1]
    /\ prevIssued = <<>>
    /\ configured \in ns
    /\ cacheBy = [data |-> 0, ts |-> 0]
    /\ written = "none"
    /\ queue = <<>>
    /\ running = 0
    /\ tstate = [s \in Sources |-> "new"]
    /\ tresult = [s \in Sources |-> "pending"]

AggInit == AggStart(Variants, FALSE, {NumSources}, FALSE)

\* the run returns list
Return(list) ==
    /\ pc' = "done"
    /\ outcome' = "resolved"
    /\ returned' = list

\* rateLimiter.add for every source, in order (part_006:660-662)
RECURSIVE addAll(_, _)
addAll(rl, todo) ==
    IF todo = <<>> THEN rl
    ELSE addAll(add(rl.q, rl.r, rl.ts, Head(todo)), Tail(todo))

\* the sources whose task runs in ts and did not in old
Newly(old, ts) == {s \in DOMAIN ts : ts[s] = "running" /\ old[s] # "running"}

\* the call of the entry point, up to its first await
StartRun(sinkThrows) ==
    /\ pc \in {"idle", "done"}
    /\ runNo < MaxRuns
    /\ runNo' = runNo + 1
    /\ now' = clock
    /\ UNCHANGED <<variant, configured, clock, cacheBy, storageFull>>
    /\ written' = "none"
    /\ answers' = [s \in Sources |-> Failure("none")]
    /\ cacheAtStart' = [data |-> cacheData, ts |-> cacheTs]
    /\ prevIssued' = issued
    /\ fetched' = [s \in Sources |-> Settled(FALSE, <<>>)]
    /\ allArticles' = <<>>
    /\ LET hit == cacheHit(variant, cacheData, cacheTs, clock)
           \* newsService.ts:226-233: the sink is called inside the try that
           \* guards JSON.parse, so its exception is taken for a parse error
           parsed == cacheData.parses
           served == hit /\ parsed /\ ~(variant = "progressive" /\ sinkThrows)
           \* part_007:127: JSON.parse stands outside every try
           thrown == hit /\ ~parsed /\ variant = "basic"
           \* newsService.ts:533-538: the catch removes both keys
           cleared == hit /\ ~parsed /\ variant = "batched"
           fresh == [s \in Sources |-> "new"]
           unissued == [s \in Sources |-> "idle"]
       IN  /\ cacheData' = IF cleared THEN NoCache ELSE cacheData
           /\ cacheTs' = IF cleared THEN -1 ELSE cacheTs
           /\ snapshots' = IF hit /\ parsed /\ variant = "progressive"
                           THEN <<cacheProgress(cacheData.list, sinkThrows,
                                                SettledCount(unissued))>>
                           ELSE <<>>
           /\ viaCache' = served
           /\ tresult' = [s \in Sources |-> "pending"]
           /\ IF served
              THEN /\ Return(cacheData.list)
                   /\ sstate' = [s \in Sources |-> "idle"]
                   /\ issued' = <<>>
                   /\ queue' = <<>> /\ running' = 0 /\ tstate' = fresh
              ELSE IF thrown
              THEN /\ pc' = "done"
                   /\ outcome' = "rejected"
                   /\ returned' = <<>>
                   /\ sstate' = [s \in Sources |-> "idle"]
                   /\ issued' = <<>>
                   /\ queue' = <<>> /\ running' = 0 /\ tstate' = fresh
              ELSE /\ outcome' = "none"
                   /\ returned' = <<>>
                   /\ CASE variant \in {"parallel", "basic"} ->
                            \* lines 146-157, part_007:133-135: every source
                            \* at once
                            /\ pc' = "fetching"
                            /\ sstate' = [s \in Sources |-> "inflight"]
                            /\ issued' = InOrder(Sources)
                            /\ queue' = <<>> /\ running' = 0 /\ tstate' = fresh
                        [] variant = "batched" ->
                            \* lines 550-555: the sources of the first batch
                            /\ pc' = "fetching"
                            /\ sstate' = [s \in Sources |->
                                    IF batchOf(s) = 0 THEN "inflight" ELSE "idle"]
                            /\ issued' = InOrder({s \in Sources : batchOf(s) = 0})
                            /\ queue' = <<>> /\ running' = 0 /\ tstate' = fresh
                        [] variant = "progressive" ->
                            \* lines 238-247: the priority sources
                            /\ pc' = "priority"
                            /\ sstate' = [s \in Sources |->
                                    IF s \in prioritySources THEN "inflight" ELSE "idle"]
                            /\ issued' = InOrder(prioritySources)
                            /\ queue' = <<>> /\ running' = 0 /\ tstate' = fresh
                        [] variant = "limited" ->
                            \* lines 655-662: a new RateLimiter, add() per source
                            LET rl == addAll([q |-> <<>>, r |-> 0, ts |-> fresh],
                                             InOrder(Sources))
                            IN  /\ pc' = "fetching"
                                /\ queue' = rl.q
                                /\ running' = rl.r
                                /\ tstate' = rl.ts
                                /\ sstate' = [s \in Sources |->
                                        IF rl.ts[s] = "running" THEN "inflight" ELSE "idle"]
                                /\ issued' = InOrder(Newly(fresh, rl.ts))
    /\ UNCHANGED <<rlHistVars, fetchVars, mergeVars, smVars, sortVars, savedVars>>

\* fetchRssFeed(source) settles; resp is the answer that decides it.
\* "limited": the reactions that follow run before any other response is
\* handled: the wrapper of add() settles the promise of add() (part_006:
\* 612-617), then the finally block of process() frees the slot and starts
\* the head of the queue (lines 634-637).
SourceSettles(s, resp) ==
    /\ pc \in {"fetching", "priority", "remaining"}
    /\ sstate[s] = "inflight"
    /\ LET r == fetchRssFeed(fetchVersion(variant), resp, s, runNo)
           n == process(queue, running - 1, [tstate EXCEPT ![s] = "done"])
           begun == Newly(tstate, n.ts)
       IN  /\ fetched' = [fetched EXCEPT ![s] = r]
           /\ answers' = [answers EXCEPT ![s] = resp]
           /\ IF variant = "limited"
              THEN /\ tresult' = [tresult EXCEPT ![s] =
                                    IF r.ok THEN "fulfilled" ELSE "rejected"]
                   /\ queue' = n.q
                   /\ running' = n.r
                   /\ tstate' = n.ts
                   /\ sstate' = [t \in Sources |->
                                    IF t = s THEN "settled"
                                    ELSE IF t \in begun THEN "inflight"
                                    ELSE sstate[t]]
                   /\ issued' = issued \o InOrder(begun)
              ELSE /\ sstate' = [sstate EXCEPT ![s] = "settled"]
                   /\ UNCHANGED <<rlVars, issued>>
    /\ UNCHANGED <<written, cacheAtStart, prevIssued, storageFull, variant, configured, clock, cacheData, cacheTs, cacheBy, pc, runNo, now, allArticles,
                   snapshots, outcome, returned, viaCache>>
    /\ UNCHANGED <<rlHistVars, fetchVars, mergeVars, smVars, sortVars, savedVars>>

\* "parallel": the 6 s timer of source s fires before its fetch settles
\* (newsService.ts:150-156): the race rejects and the catch yields []
Deadline(s) ==
    /\ variant = "parallel"
    /\ pc = "fetching"
    /\ sstate[s] = "inflight"
    /\ sstate' = [sstate EXCEPT ![s] = "late"]
    /\ fetched' = [fetched EXCEPT ![s] = Settled(TRUE, <<>>)]
    /\ answers' = [answers EXCEPT ![s] = Failure("timeout")]
    /\ UNCHANGED <<written, cacheAtStart, prevIssued, storageFull, variant, configured, clock, cacheData, cacheTs, cacheBy, pc, runNo, now, allArticles,
                   snapshots, issued, outcome, returned, viaCache, rlVars>>
    /\ UNCHANGED <<rlHistVars, fetchVars, mergeVars, smVars, sortVars, savedVars>>

LateSettlesCounted(s) ==
    /\ variant = "parallel"
    /\ sstate[s] = "late"
    /\ sstate' = [sstate EXCEPT ![s] = "lateDone"]
    /\ \E resp \in AggResponses(s) :
            fetched' = [fetched EXCEPT ![s] = fetchRssFeed(fetchVersion(variant), resp, s, runNo)]
    /\ UNCHANGED <<written, answers, cacheAtStart, prevIssued, storageFull, variant, configured, clock, cacheData, cacheTs, cacheBy, pc, runNo, now,
                   allArticles, snapshots, issued, outcome, returned, viaCache, rlVars>>
    /\ UNCHANGED <<rlHistVars, fetchVars, mergeVars, smVars, sortVars, savedVars>>

\* "parallel": a fetch that lost the race settles; nobody reads its value
LateSettles(s) ==
    /\ variant = "parallel"
    /\ sstate[s] = "late"
    /\ sstate' = [sstate EXCEPT ![s] = "lateDone"]
    /\ UNCHANGED <<written, answers, cacheAtStart, prevIssued, storageFull, variant, configured, clock, cacheData, cacheTs, cacheBy, pc, runNo, now, fetched,
                   allArticles, snapshots, issued, outcome, returned, viaCache, rlVars>>
    /\ UNCHANGED <<rlHistVars, fetchVars, mergeVars, smVars, sortVars, savedVars>>

\* the two setItem calls for a non-empty list, ending as w
WriteCache(w, list, t) ==
    /\ cacheData' = dataAfterWrite(variant, w, cacheData, list)
    /\ cacheTs' = tsAfterWrite(variant, w, cacheTs, t)
    /\ cacheBy' = byAfterWrite(variant, w, cacheBy, runNo)
    /\ written' = w

\* "parallel": Promise.allSettled resolves (newsService.ts:160-192)
CompleteParallel(w) ==
    /\ variant = "parallel"
    /\ pc = "fetching"
    /\ \A s \in Sources : Done(sstate[s])
    /\ LET all == sortByDate(flat(fetched, 1, NumSources))
       IN  /\ IF Len(all) > 0
              THEN WriteCache(w, all, now)
              ELSE w = "ok" /\ UNCHANGED <<cacheData, cacheTs, cacheBy>> /\ written' = "none"
           /\ Return(all)
    /\ UNCHANGED <<answers, cacheAtStart, prevIssued, storageFull, variant, configured, clock, runNo, now, sstate, fetched, allArticles,
                   snapshots, issued, viaCache, rlVars>>
    /\ UNCHANGED <<rlHistVars, fetchVars, mergeVars, smVars, sortVars, savedVars>>

\* Promise.allSettled(promises) of a batch resolves: every fetch of it has
\* settled
batchSettledAny(ss, b) == \E s \in Sources : batchOf(s) = b /\ Done(ss[s])
batchSettled(ss, b) == \A s \in Sources : batchOf(s) = b => Done(ss[s])

\* "batched": allSettled of the batch in flight resolves (newsService.ts:
\* 557-590): its values are pushed to allArticles; after the last batch the
\* list is sorted, stored and returned, else the 500 ms timer is set
BatchDone(w) ==
    /\ variant = "batched"
    /\ pc = "fetching"
    /\ LET b == batchOf(Len(issued))
           lo == b * batchSize + 1
           all == allArticles \o flat(fetched, lo, Len(issued))
       IN  /\ batchSettled(sstate, b)
           /\ IF Len(issued) < NumSources
              THEN /\ w = "ok"
                   /\ allArticles' = all
                   /\ pc' = "delay"
                   /\ UNCHANGED <<cacheData, cacheTs, cacheBy, outcome, returned>>
                   /\ written' = "none"
              ELSE /\ allArticles' = sortByDate(all)
                   /\ WriteCache(w, sortByDate(all), now)
                   /\ Return(sortByDate(all))
    /\ UNCHANGED <<answers, cacheAtStart, prevIssued, storageFull, variant, configured, clock, runNo, now, sstate, fetched,
                   snapshots, issued, viaCache, rlVars>>
    /\ UNCHANGED <<rlHistVars, fetchVars, mergeVars, smVars, sortVars, savedVars>>

\* "batched": the 500 ms timer between two batches fires (newsService.ts:
\* 567-570) and the loop maps the next batch to its fetches (550-555)
DelayEnds ==
    /\ variant = "batched"
    /\ pc = "delay"
    /\ LET next == {s \in Sources : batchOf(s) = batchOf(Len(issued)) + 1}
       IN  /\ sstate' = [s \in Sources |-> IF s \in next THEN "inflight" ELSE sstate[s]]
           /\ issued' = issued \o InOrder(next)
    /\ pc' = "fetching"
    /\ UNCHANGED <<written, answers, cacheAtStart, prevIssued, storageFull, variant, configured, clock, cacheData, cacheTs, cacheBy, runNo, now,
                   fetched, allArticles, snapshots, outcome, returned, viaCache, rlVars>>
    /\ UNCHANGED <<rlHistVars, fetchVars, mergeVars, smVars, sortVars, savedVars>>

\* "basic": Promise.allSettled resolves (part_007:137-163).  The two setItem
\* calls stand in the try of the whole run: when one throws, the catch
\* returns what localStorage holds under CACHE_KEY at that moment, or [].
CompleteBasic(w) ==
    /\ variant = "basic"
    /\ pc = "fetching"
    /\ \A s \in Sources : Done(sstate[s])
    /\ LET articles == sortByDate(flat(fetched, 1, NumSources))
           stored == dataAfterWrite(variant, w, cacheData, articles)
       IN  /\ WriteCache(w, articles, now)
           /\ IF w # "ok" /\ stored.present /\ ~stored.parses
              THEN \* JSON.parse of line 159 throws inside the catch
                   pc' = "done" /\ outcome' = "rejected" /\ returned' = <<>>
              ELSE Return(IF w = "ok" THEN articles
                          ELSE IF stored.present THEN stored.list ELSE <<>>)
    /\ UNCHANGED <<answers, cacheAtStart, prevIssued, storageFull, variant, configured, clock, runNo, now, sstate, fetched, allArticles,
                   snapshots, issued, viaCache, rlVars>>
    /\ UNCHANGED <<rlHistVars, fetchVars, mergeVars, smVars, sortVars, savedVars>>

\* "limited": Promise.allSettled resolves (part_006:665-722)
CompleteLimited(w) ==
    /\ variant = "limited"
    /\ pc = "fetching"
    /\ \A s \in Sources : tresult[s] # "pending"
    /\ LET articles == flat(fetched, 1, NumSources)
           unique == mergeArticles(articles)
       IN  IF Len(articles) = 0
           THEN \* lines 691-702: the stale cache, or nothing
                /\ w = "ok"
                /\ pc' = "done"
                /\ outcome' = staleFallback(cacheData).outcome
                /\ returned' = staleFallback(cacheData).list
                /\ UNCHANGED <<cacheData, cacheTs, cacheBy>> /\ written' = "none"
           ELSE /\ WriteCache(w, unique, clock)
                /\ Return(unique)
    /\ UNCHANGED <<answers, cacheAtStart, prevIssued, storageFull, variant, configured, clock, runNo, now, sstate, fetched, allArticles,
                   snapshots, issued, viaCache, rlVars>>
    /\ UNCHANGED <<rlHistVars, fetchVars, mergeVars, smVars, sortVars, savedVars>>

\* the catch of fetchNewsProgressively (lines 300-304): the sink is called
\* again with what was accumulated; if it throws again the run rejects
Caught(snaps, list, throwsAgain) ==
    /\ snapshots' = Append(snaps, Snapshot(list, TRUE, throwsAgain, SettledCount(sstate)))
    /\ pc' = "done"
    /\ outcome' = IF throwsAgain THEN "rejected" ELSE "resolved"
    /\ returned' = IF throwsAgain THEN <<>> ELSE list
    /\ UNCHANGED <<cacheData, cacheTs, cacheBy, sstate, issued>>
    /\ written' = "none"

\* "progressive": Promise.all of the priority fetches resolves (lines 249-298)
PriorityDone(sinkThrows, throwsAgain, w) ==
    /\ variant = "progressive"
    /\ pc = "priority"
    /\ \A s \in prioritySources : Done(sstate[s])
    /\ LET priorityArticles == sortByDate(flat(fetched, 1, Cardinality(prioritySources)))
           snaps == Append(snapshots,
                       Snapshot(priorityArticles, FALSE, sinkThrows, SettledCount(sstate)))
       IN  /\ allArticles' = priorityArticles
           /\ IF sinkThrows
              THEN w = "ok" /\ Caught(snaps, priorityArticles, throwsAgain)
              ELSE /\ ~throwsAgain
                   /\ snapshots' = snaps
                   /\ IF remainingSources # {}
                      THEN /\ w = "ok"
                           /\ pc' = "remaining"
                           /\ sstate' = [s \in Sources |->
                                   IF s \in remainingSources THEN "inflight" ELSE sstate[s]]
                           /\ issued' = issued \o InOrder(remainingSources)
                           /\ UNCHANGED <<cacheData, cacheTs, cacheBy, outcome, returned>>
                           /\ written' = "none"
                      ELSE /\ IF Len(priorityArticles) > 0
                              THEN WriteCache(w, priorityArticles, now)
                              ELSE w = "ok" /\ UNCHANGED <<cacheData, cacheTs, cacheBy>> /\ written' = "none"
                           /\ Return(priorityArticles)
                           /\ UNCHANGED <<sstate, issued>>
    /\ UNCHANGED <<answers, cacheAtStart, prevIssued, storageFull, variant, configured, clock, runNo, now, fetched, viaCache, rlVars>>
    /\ UNCHANGED <<rlHistVars, fetchVars, mergeVars, smVars, sortVars, savedVars>>

\* "progressive": Promise.all of the remaining fetches resolves (lines 271-298)
RemainingDone(sinkThrows, throwsAgain, w) ==
    /\ variant = "progressive"
    /\ pc = "remaining"
    /\ \A s \in remainingSources : Done(sstate[s])
    /\ LET remainingArticles == flat(fetched, PRIORITY_COUNT + 1, NumSources)
           all == sortByDate(allArticles \o remainingArticles)
           snaps == Append(snapshots, Snapshot(all, TRUE, sinkThrows, SettledCount(sstate)))
       IN  /\ allArticles' = all
           /\ IF sinkThrows
              THEN w = "ok" /\ Caught(snaps, all, throwsAgain)
              ELSE /\ ~throwsAgain
                   /\ snapshots' = snaps
                   /\ IF Len(all) > 0
                      THEN WriteCache(w, all, now)
                      ELSE w = "ok" /\ UNCHANGED <<cacheData, cacheTs, cacheBy>> /\ written' = "none"
                   /\ Return(all)
                   /\ UNCHANGED <<sstate, issued>>
    /\ UNCHANGED <<answers, cacheAtStart, prevIssued, storageFull, variant, configured, clock, runNo, now, fetched, viaCache, rlVars>>
    /\ UNCHANGED <<rlHistVars, fetchVars, mergeVars, smVars, sortVars, savedVars>>

\* time passes
\* (a tick while fetches are in flight commutes with their settlements, so
\* the clock is advanced only between them)
Tick ==
    /\ clock < StartClock + MaxTicks
    /\ \A s \in Sources : sstate[s] # "inflight"
    /\ clock' = clock + 1
    /\ UNCHANGED <<written, answers, cacheAtStart, prevIssued, storageFull, variant, configured, cacheData, cacheTs, cacheBy, pc, runNo, now, sstate, fetched,
                   allArticles, snapshots, issued, outcome, returned, viaCache, rlVars>>
    /\ UNCHANGED <<rlHistVars, fetchVars, mergeVars, smVars, sortVars, savedVars>>

\* The merge step of part_006:704-714 applied to what two sources delivered.
Batches ==
    {mapItemsEnhanced(f1, 1, 1) \o mapItemsEnhanced(f2, 2, 1) : f1, f2 \in Feeds}

MergeIdle ==
    /\ mbatch = <<>>
    /\ mpc = "off"
    /\ mOnce = <<>>
    /\ mTwice = <<>>

MergeInit ==
    /\ mbatch \in Batches
    /\ mpc = "input"
    /\ mOnce = <<>>
    /\ mTwice = <<>>

MergeOnce ==
    /\ mpc = "input"
    /\ mOnce' = mergeArticles(mbatch)
    /\ mpc' = "once"
    /\ UNCHANGED <<mbatch, mTwice>>
    /\ UNCHANGED <<rlVars, rlHistVars, fetchVars, aggVars, smVars, sortVars, savedVars>>

MergeTwice ==
    /\ mpc = "once"
    /\ mTwice' = mergeArticles(mbatch \o mbatch)
    /\ mpc' = "twice"
    /\ UNCHANGED <<mbatch, mOnce>>
    /\ UNCHANGED <<rlVars, rlHistVars, fetchVars, aggVars, smVars, sortVars, savedVars>>

MergeNext == MergeOnce \/ MergeTwice

\* SourceManager: the statistics kept for each source and the decision to
\* skip one. successRate is counted in hundredths, time in minutes.
SMSources == {1, 2}
SMStart == 10

Min(a, b) == IF a < b THEN a ELSE b
Max(a, b) == IF a > b THEN a ELSE b

\* +0.1 capped at 1; consecutiveFailures decremented toward 0
recordSuccess(st, t) ==
    [successRate |-> Min(100, st.successRate + 10),
     consecutiveFailures |-> Max(0, st.consecutiveFailures - 1),
     lastSuccessAt |-> t]

\* -0.2 floored at 0; consecutiveFailures incremented
recordFailure(st) ==
    [successRate |-> Max(0, st.successRate - 20),
     consecutiveFailures |-> st.consecutiveFailures + 1,
     lastSuccessAt |-> st.lastSuccessAt]

\* successRate < 0.1 AND consecutiveFailures > 3 AND
\* now - lastSuccessAt > 5 minutes
shouldSkipIgnoringAge(st, t) ==
    st.successRate < 10 /\ st.consecutiveFailures > 3
shouldSkip(st, t) ==
    /\ st.successRate < 10
    /\ st.consecutiveFailures > 3
    /\ t - st.lastSuccessAt > 5

\* the statistics a source may have on record when the model starts
PersistedStats ==
    [successRate : {5, 10}, consecutiveFailures : {3, 4},
     lastSuccessAt : {SMStart - 10, SMStart - 5, SMStart - 1}]

SMIdle ==
    /\ smStats = <<>>
    /\ smClock = 0
    /\ smFetch = <<>>
    /\ smSeen = <<>>
    /\ smStarted = 0
    /\ smRuns = 0

SMInit ==
    /\ smStats \in [SMSources -> PersistedStats]
    /\ smClock = SMStart
    /\ smFetch = [s \in SMSources |-> "none"]
    /\ smSeen = smStats
    /\ smStarted = SMStart
    /\ smRuns = 0

\* a run starts: a fetch is issued for every source that is not skipped
SMBeginRun ==
    /\ smRuns < MaxRuns
    /\ \A s \in SMSources : smFetch[s] # "inflight"
    /\ smRuns' = smRuns + 1
    /\ smSeen' = smStats
    /\ smStarted' = smClock
    /\ smFetch' = [s \in SMSources |->
            IF shouldSkip(smStats[s], smClock) THEN "skipped" ELSE "inflight"]
    /\ UNCHANGED <<smStats, smClock>>
    /\ UNCHANGED <<rlVars, rlHistVars, fetchVars, aggVars, mergeVars, sortVars, savedVars>>

SMFetchSucceeds(s) ==
    /\ smFetch[s] = "inflight"
    /\ smStats' = [smStats EXCEPT ![s] = recordSuccess(@, smClock)]
    /\ smFetch' = [smFetch EXCEPT ![s] = "fetched"]
    /\ UNCHANGED <<smClock, smSeen, smStarted, smRuns>>
    /\ UNCHANGED <<rlVars, rlHistVars, fetchVars, aggVars, mergeVars, sortVars, savedVars>>

SMFetchFails(s) ==
    /\ smFetch[s] = "inflight"
    /\ smStats[s].consecutiveFailures < MaxFailures
    /\ smStats' = [smStats EXCEPT ![s] = recordFailure(@)]
    /\ smFetch' = [smFetch EXCEPT ![s] = "fetched"]
    /\ UNCHANGED <<smClock, smSeen, smStarted, smRuns>>
    /\ UNCHANGED <<rlVars, rlHistVars, fetchVars, aggVars, mergeVars, sortVars, savedVars>>

SMTick ==
    /\ smClock < SMStart + MaxTicks
    /\ smClock' = smClock + 1
    /\ UNCHANGED <<smStats, smFetch, smSeen, smStarted, smRuns>>
    /\ UNCHANGED <<rlVars, rlHistVars, fetchVars, aggVars, mergeVars, sortVars, savedVars>>

SMNext ==
    \/ SMBeginRun
    \/ \E s \in SMSources : SMFetchSucceeds(s)
    \/ \E s \in SMSources : SMFetchFails(s)
    \/ SMTick

\* The sort step applied to what two sources delivered.
SortItems == {ItemA1, ItemB, ItemBadDate}
SortFeeds == SeqsUpTo(SortItems, MaxFeedLen)

SortIdle ==
    /\ sIn = <<>>
    /\ sRev = "none"
    /\ spc = "off"
    /\ sOut = <<>>

SortInit ==
    /\ sRev \in {"plain", "enhanced"}
    /\ \E f1, f2 \in SortFeeds :
            sIn = IF sRev = "plain"
                  THEN mapItemsPlain(f1, 1, 1) \o mapItemsPlain(f2, 2, 1)
                  ELSE mapItemsEnhanced(f1, 1, 1) \o mapItemsEnhanced(f2, 2, 1)
    /\ spc = "input"
    /\ sOut = <<>>

\* newsService.ts:162-192: push the lists, sort, return
SortPlain(out) ==
    /\ sRev = "plain"
    /\ spc = "input"
    /\ out \in sortOutcomes(sIn)
    /\ sOut' = out
    /\ spc' = "sorted"
    /\ UNCHANGED <<sIn, sRev>>
    /\ UNCHANGED <<rlVars, rlHistVars, fetchVars, aggVars, mergeVars, smVars, savedVars>>

\* part_006:704-722: filter, sort, return
SortEnhanced ==
    /\ sRev = "enhanced"
    /\ spc = "input"
    /\ sOut' = mergeArticles(sIn)
    /\ spc' = "sorted"
    /\ UNCHANGED <<sIn, sRev>>
    /\ UNCHANGED <<rlVars, rlHistVars, fetchVars, aggVars, mergeVars, smVars, savedVars>>

SortNext ==
    \/ \E out \in sortOutcomes(sIn) : SortPlain(out)
    \/ SortEnhanced

----------------------------------------------------------------------------
(* The saved articles of the news context, two revisions:                  *)
(*   "append"   NewsContext.tsx:123-144  calls without an id are refused,  *)
(*                                       a new article goes to the end     *)
(*   "prepend"  part_000:190-203         no refusal, a new article goes to *)
(*                                       the front                         *)

\* article ids the calls are made with; "" is the id that is falsy
SavedIds == {"", "g1", "g2"}
SavedTitles == {"a", "b"}
SavedInputs == {[id |-> i, title |-> t] : i \in SavedIds, t \in SavedTitles}

\* prev.some(a => a.id === article.id)
HasId(prev, id) == \E k \in DOMAIN prev : prev[k].id = id

saveUpdaterAlways(rev, prev, article) ==
    IF rev = "append" THEN Append(prev, article) ELSE <<article>> \o prev

\* the function handed to setSavedArticles by saveArticle
saveUpdater(rev, prev, article) ==
    IF HasId(prev, article.id)
    THEN prev
    ELSE IF rev = "append"
         THEN Append(prev, article)         \* NewsContext.tsx:133
         ELSE <<article>> \o prev           \* part_000:196

\* prev.filter(a => a.id !== articleId)
removeUpdater(prev, articleId) ==
    LET Other(a) == a.id # articleId
    IN  SelectSeq(prev, Other)

SavedIdle ==
    /\ svRev = "none"
    /\ savedArticles = <<>>
    /\ svLast = [op |-> "none", id |-> "", had |-> FALSE]

\* useState initialiser: the list an earlier session stored, or []
SavedInit ==
    /\ svRev \in {"append", "prepend"}
    /\ savedArticles \in
            {l \in SeqsUpTo({a \in SavedInputs : a.id # ""}, MaxSaved) :
                \A i, j \in DOMAIN l : l[i].id = l[j].id => i = j}
    /\ svLast = [op |-> "none", id |-> "", had |-> FALSE]

saveArticle(article) ==
    /\ svRev # "none"
    /\ savedArticles' =
            IF svRev = "append" /\ article.id = ""
            THEN savedArticles              \* NewsContext.tsx:124-127 return
            ELSE saveUpdater(svRev, savedArticles, article)
    /\ svLast' = [op |-> "save", id |-> article.id,
                  had |-> HasId(savedArticles, article.id)]
    /\ UNCHANGED svRev
    /\ UNCHANGED <<rlVars, rlHistVars, fetchVars, aggVars, mergeVars, smVars, sortVars>>

removeFromSaved(articleId) ==
    /\ svRev # "none"
    /\ savedArticles' =
            IF svRev = "append" /\ articleId = ""
            THEN savedArticles              \* NewsContext.tsx:138-141 return
            ELSE removeUpdater(savedArticles, articleId)
    /\ svLast' = [op |-> "remove", id |-> articleId,
                  had |-> HasId(savedArticles, articleId)]
    /\ UNCHANGED svRev
    /\ UNCHANGED <<rlVars, rlHistVars, fetchVars, aggVars, mergeVars, smVars, sortVars>>

SavedNext ==
    \/ \E article \in SavedInputs : saveArticle(article)
    \/ \E articleId \in SavedIds : removeFromSaved(articleId)

AggNext ==
    \/ \E t \in BOOLEAN : StartRun(t)
    \/ \E s \in Sources : \E resp \in AggResponses(s) : SourceSettles(s, resp)
    \/ \E s \in Sources : Deadline(s)
    \/ \E s \in Sources : LateSettles(s)
    \/ \E w \in WriteOutcomes(variant, storageFull) : CompleteParallel(w)
    \/ \E w \in WriteOutcomes(variant, storageFull) : CompleteLimited(w)
    \/ \E t1, t2 \in BOOLEAN : \E w \in WriteOutcomes(variant, storageFull) : PriorityDone(t1, t2, w)
    \/ \E t1, t2 \in BOOLEAN : \E w \in WriteOutcomes(variant, storageFull) : RemainingDone(t1, t2, w)
    \/ Tick

\* the entry points of every revision, with localStorage at its quota
QuotaNext ==
    \/ \E t \in BOOLEAN : StartRun(t)
    \/ \E s \in Sources : \E resp \in AggResponses(s) : SourceSettles(s, resp)
    \/ \E s \in Sources : Deadline(s)
    \/ \E s \in Sources : LateSettles(s)
    \/ \E w \in WriteOutcomes(variant, storageFull) : CompleteParallel(w)
    \/ \E w \in WriteOutcomes(variant, storageFull) : CompleteBasic(w)
    \/ \E w \in WriteOutcomes(variant, storageFull) : CompleteLimited(w)
    \/ \E t1, t2 \in BOOLEAN : \E w \in WriteOutcomes(variant, storageFull) : PriorityDone(t1, t2, w)
    \/ \E t1, t2 \in BOOLEAN : \E w \in WriteOutcomes(variant, storageFull) : RemainingDone(t1, t2, w)
    \/ Tick

\* the entry points that fetch in stages: fetchNewsProgressively and the
\* batched fetchNewsFromAllSources of newsService.ts:519
StagedNext ==
    \/ \E t \in BOOLEAN : StartRun(t)
    \/ \E s \in Sources : \E resp \in AggResponses(s) : SourceSettles(s, resp)
    \/ \E t1, t2 \in BOOLEAN : \E w \in WriteOutcomes(variant, storageFull) : PriorityDone(t1, t2, w)
    \/ \E t1, t2 \in BOOLEAN : \E w \in WriteOutcomes(variant, storageFull) : RemainingDone(t1, t2, w)
    \/ \E w \in WriteOutcomes(variant, storageFull) : BatchDone(w)
    \/ DelayEnds
    \/ Tick

\* fetchNewsProgressively
ProgressiveNext ==
    \/ \E t \in BOOLEAN : StartRun(t)
    \/ \E s \in Sources : \E resp \in AggResponses(s) : SourceSettles(s, resp)
    \/ \E t1, t2 \in BOOLEAN : \E w \in WriteOutcomes(variant, storageFull) : PriorityDone(t1, t2, w)
    \/ \E t1, t2 \in BOOLEAN : \E w \in WriteOutcomes(variant, storageFull) : RemainingDone(t1, t2, w)
    \/ Tick

\* the entry points of every revision
AllNext ==
    \/ \E t \in BOOLEAN : StartRun(t)
    \/ \E s \in Sources : \E resp \in AggResponses(s) : SourceSettles(s, resp)
    \/ \E s \in Sources : Deadline(s)
    \/ \E s \in Sources : LateSettles(s)
    \/ \E w \in WriteOutcomes(variant, storageFull) : CompleteParallel(w)
    \/ \E w \in WriteOutcomes(variant, storageFull) : CompleteBasic(w)
    \/ \E w \in WriteOutcomes(variant, storageFull) : CompleteLimited(w)
    \/ \E t1, t2 \in BOOLEAN : \E w \in WriteOutcomes(variant, storageFull) : PriorityDone(t1, t2, w)
    \/ \E t1, t2 \in BOOLEAN : \E w \in WriteOutcomes(variant, storageFull) : RemainingDone(t1, t2, w)
    \/ \E w \in WriteOutcomes(variant, storageFull) : BatchDone(w)
    \/ DelayEnds
    \/ Tick

\* fetchNewsFromAllSources and fetchNewsProgressively of newsService.ts
TimedNext ==
    \/ \E t \in BOOLEAN : StartRun(t)
    \/ \E s \in Sources : \E resp \in AggResponses(s) : SourceSettles(s, resp)
    \/ \E s \in Sources : Deadline(s)
    \/ \E s \in Sources : LateSettles(s)
    \/ \E w \in WriteOutcomes(variant, storageFull) : CompleteParallel(w)
    \/ \E t1, t2 \in BOOLEAN : \E w \in WriteOutcomes(variant, storageFull) : PriorityDone(t1, t2, w)
    \/ \E t1, t2 \in BOOLEAN : \E w \in WriteOutcomes(variant, storageFull) : RemainingDone(t1, t2, w)
    \/ Tick

\* the source whose relay requests may stay without an answer for ever
\* (axios.get of newsService.ts:66 neither resolves nor rejects)
hungSource == CHOOSE s \in Sources : \A t \in Sources : s <= t

----------------------------------------------------------------------------
(* Specifications *)

RLNext ==
    \/ \E t \in RLTasks : RLAdd(t)
    \/ \E t \in RLTasks : \E o \in {"fulfilled", "rejected"} : RLSettle(t, o)
    \/ \E t \in RLTasks : RLRelease(t)

InitRL == RLInit /\ SortIdle /\ SavedIdle /\ FetchIdle /\ AggIdle /\ MergeIdle /\ SMIdle
SpecRL == InitRL /\ [][RLNext]_vars

\* every started task settles in the end, and the reactions that follow a
\* settlement (the finally block of process()) are run
SpecRLFair ==
    /\ InitRL
    /\ [][RLNext]_vars
    /\ \A t \in RLTasks : WF_vars(\E how \in {"fulfilled", "rejected"} : RLSettle(t, how))
    /\ \A t \in RLTasks : WF_vars(RLRelease(t))

InitFetch == FetchInit /\ SortIdle /\ SavedIdle /\ RLIdle /\ RLHistIdle /\ AggIdle /\ MergeIdle /\ SMIdle
SpecFetch == InitFetch /\ [][FetchNext]_vars

InitMerge == MergeInit /\ SortIdle /\ SavedIdle /\ RLIdle /\ RLHistIdle /\ FetchIdle /\ AggIdle /\ SMIdle
SpecMerge == InitMerge /\ [][MergeNext]_vars

InitSM == SMInit /\ SortIdle /\ SavedIdle /\ RLIdle /\ RLHistIdle /\ FetchIdle /\ AggIdle /\ MergeIdle
SpecSM == InitSM /\ [][SMNext]_vars

InitSaved == SavedInit /\ SortIdle /\ RLIdle /\ RLHistIdle /\ FetchIdle /\ AggIdle /\ MergeIdle /\ SMIdle
SpecSaved == InitSaved /\ [][SavedNext]_vars

InitSort == SortInit /\ SavedIdle /\ RLIdle /\ RLHistIdle /\ FetchIdle /\ AggIdle /\ MergeIdle /\ SMIdle
SpecSort == InitSort /\ [][SortNext]_vars

Init == AggInit /\ SortIdle /\ SavedIdle /\ RLHistIdle /\ FetchIdle /\ MergeIdle /\ SMIdle
Spec == Init /\ [][AggNext]_vars

\* newsService.ts with one source that need not answer: a timer that was
\* set fires, the relays of every other source answer, and a promise whose
\* inputs have all settled runs its continuation
InitHang == AggStart({"parallel", "progressive"}, FALSE, {NumSources}, FALSE) /\ SortIdle /\ SavedIdle /\ RLHistIdle /\ FetchIdle /\ MergeIdle /\ SMIdle
SpecHang ==
    /\ InitHang /\ [][TimedNext]_vars
    /\ \A s \in Sources \ {hungSource} :
            WF_vars(\E resp \in AggResponses(s) : SourceSettles(s, resp))
    /\ \A s \in Sources : WF_vars(Deadline(s))
    /\ WF_vars(\E w \in WriteOutcomes(variant, storageFull) : CompleteParallel(w))
    /\ WF_vars(\E t1, t2 \in BOOLEAN : \E w \in WriteOutcomes(variant, storageFull) :
                    PriorityDone(t1, t2, w))
    /\ WF_vars(\E t1, t2 \in BOOLEAN : \E w \in WriteOutcomes(variant, storageFull) :
                    RemainingDone(t1, t2, w))

InitStaged == AggStart({"progressive", "batched"}, FALSE, {NumSources}, FALSE) /\ SortIdle /\ SavedIdle /\ RLHistIdle /\ FetchIdle /\ MergeIdle /\ SMIdle
SpecStaged == InitStaged /\ [][StagedNext]_vars

\* fetchNewsProgressively over source lists of every length
InitFew == AggStart({"progressive"}, FALSE, 1..NumSources, FALSE) /\ SortIdle /\ SavedIdle /\ RLHistIdle /\ FetchIdle /\ MergeIdle /\ SMIdle
SpecFew == InitFew /\ [][ProgressiveNext]_vars

\* every entry point over a cache whose payload, if stored, does not parse
InitCorrupt == AggStart(AllVariants \cup {"batched"}, FALSE, {NumSources}, TRUE) /\ SortIdle /\ SavedIdle /\ RLHistIdle /\ FetchIdle /\ MergeIdle /\ SMIdle
SpecCorrupt == InitCorrupt /\ [][AllNext]_vars

InitQuota == AggStart(AllVariants, TRUE, {NumSources}, FALSE) /\ SortIdle /\ SavedIdle /\ RLHistIdle /\ FetchIdle /\ MergeIdle /\ SMIdle
SpecQuota == InitQuota /\ [][QuotaNext]_vars

----------------------------------------------------------------------------
(* C10: in every reachable state of a RateLimiter the number of tasks that *)
(* have started and have not yet settled is at most maxConcurrent.         *)
Started == {t \in DOMAIN tstate : tstate[t] = "running"}

C10_AtMostMaxConcurrent ==
    /\ Cardinality(Started) <= CONCURRENT_REQUESTS
    /\ Cardinality(Started) <= running

\* the limit is reached while a further task waits in the queue
C10_Witness ==
    /\ Cardinality(Started) = CONCURRENT_REQUESTS
    /\ Len(queue) > 0
    /\ \E t \in DOMAIN tresult : tresult[t] = "rejected"

----------------------------------------------------------------------------
(* C11: the tasks given to RateLimiter.add start in the order in which     *)
(* they were given: no task starts before a task given earlier has         *)
(* started.                                                                *)
C11_StartInSubmissionOrder ==
    /\ Len(started) <= Len(submitted)
    /\ \A i \in DOMAIN started : started[i] = submitted[i]

\* two tasks wait while the limit is reached and a release starts the older
C11_Witness ==
    /\ Len(started) = CONCURRENT_REQUESTS + 1
    /\ Len(queue) > 0
    /\ Len(submitted) >= CONCURRENT_REQUESTS + 2
    /\ started[Len(started)] = submitted[CONCURRENT_REQUESTS + 1]

----------------------------------------------------------------------------
(* C12: when the finally block of process() runs for a settled task while  *)
(* tasks wait, the head of the queue is started in that step, whichever    *)
(* task has settled; and when every started task settles in the end,       *)
(* every task given to add() starts and its add() promise settles.         *)
ReleaseStartsHead ==
    \A t \in RLTasks :
        (tstate[t] = "finishing" /\ tstate'[t] = "done" /\ queue # <<>>)
            => (tstate'[Head(queue)] = "running" /\ queue' = Tail(queue))

C12_QueueAdvancesEagerly ==
    /\ [][ReleaseStartsHead]_vars
    /\ \A t \in RLTasks :
            (tstate[t] \in {"queued", "running"}) ~> (tresult[t] # "pending" /\ tstate[t] = "done")

\* a task that had to wait has settled while the task started first still runs
C12_Witness ==
    /\ Len(started) > CONCURRENT_REQUESTS
    /\ tstate[started[1]] = "running"
    /\ \E i \in DOMAIN started :
            i > CONCURRENT_REQUESTS /\ tresult[started[i]] # "pending"

----------------------------------------------------------------------------
(* C5: fetchRssFeed never rejects: whatever the source URL and whatever    *)
(* the relays answer, its promise is fulfilled, and with the empty list    *)
(* when no relay delivered a feed with items.                              *)
C5_FetchNeverRejects ==
    /\ fpc # "rejected"
    /\ (fpc = "resolved" /\ ~fgood) => fvalue = <<>>

----------------------------------------------------------------------------
(* What the claims about a run of the entry point speak of *)

\* the run fetched and has returned or thrown
LiveRunDone == pc = "done" /\ runNo > 0 /\ ~viaCache

\* every configured source was asked and none delivered a feed: each fetch
\* ended in an error or in the 6 s deadline
AllSourcesFailed ==
    \A s \in Sources : answers[s].kind \in {"neterr", "timeout"}

\* no call of the progress sink raised an exception in this run
NoSinkException == \A i \in DOMAIN snapshots : ~snapshots[i].threw

\* the cache entry the run found was present and younger than the TTL
FreshAtStart ==
    /\ cacheAtStart.data.present
    /\ cacheAtStart.ts # -1
    /\ now - cacheAtStart.ts < CACHE_DURATION(variant)

\* the cache entry the run found held articles and was as old as the TTL
\* or older
ExpiredAtStart ==
    /\ cacheAtStart.data.present
    /\ Len(cacheAtStart.data.list) > 0
    /\ cacheAtStart.ts # -1
    /\ now - cacheAtStart.ts >= CACHE_DURATION(variant)

Titles(list) == [k \in DOMAIN list |-> list[k].title]

----------------------------------------------------------------------------
----------------------------------------------------------------------------
(* C2: when the cache entry is expired but holds articles and every live   *)
(* fetch of the run fails, the entry point returns exactly the cached      *)
(* articles.                                                               *)
C2_ExpiredCacheServed ==
    (LiveRunDone /\ AllSourcesFailed /\ ExpiredAtStart /\ NoSinkException)
        => (outcome = "resolved" /\ returned = cacheAtStart.data.list)

----------------------------------------------------------------------------
----------------------------------------------------------------------------
(* C4: within one run of fetchNewsProgressively, of two progress snapshots *)
(* the later one holds every record of the earlier one, the snapshot of    *)
(* the error path included. Two records are the same when they agree on    *)
(* title, link, publish time and source.                                   *)
SameRecord(a, b) ==
    /\ a.title = b.title
    /\ a.link = b.link
    /\ a.pubDate = b.pubDate
    /\ a.source = b.source

C4_MonotonicProgress ==
    variant = "progressive" =>
        \A i, j \in DOMAIN snapshots :
            i < j => \A k \in DOMAIN snapshots[i].articles :
                        \E m \in DOMAIN snapshots[j].articles :
                            SameRecord(snapshots[i].articles[k], snapshots[j].articles[m])

----------------------------------------------------------------------------
(* C6: merging is idempotent under duplication of its input: the filter    *)
(* and sort of a batch followed by a second copy of the batch give the     *)
(* list that the filter and sort of the batch alone give.                  *)
C6_MergeIdempotent == mpc = "twice" => mTwice = mOnce

\* a batch in which the filter has dropped a record and the sort has moved one
C6_Witness ==
    /\ mpc = "twice"
    /\ Len(mOnce) >= 2
    /\ Len(mOnce) < Len(mbatch)
    /\ mOnce[1].pubDate > mbatch[1].pubDate
    /\ mTwice = mOnce

----------------------------------------------------------------------------
(* C13 as stated: the merge collapses two fetched records exactly when     *)
(* they have the same title and the same source: of the records of one     *)
(* title and source the first is kept, whatever the links, and every       *)
(* title and source of the batch is found in the result.                   *)
TitleAndSource(a, b) == a.title = b.title /\ a.source = b.source
TitleAndLink(a, b) == a.title = b.title /\ a.link = b.link

C13_KeyIsTitleAndSource ==
    mpc # "input" =>
        /\ \A i, j \in DOMAIN mOnce : i < j => ~TitleAndSource(mOnce[i], mOnce[j])
        /\ \A i \in DOMAIN mbatch : \E k \in DOMAIN mOnce : TitleAndSource(mOnce[k], mbatch[i])

(* C13 amended: the merge collapses two fetched records exactly when they  *)
(* have the same title and the same link, whatever their sources: no two   *)
(* records of the result agree on title and link, every title and link of  *)
(* the batch is found in the result, and the record kept is the first of   *)
(* the batch with that title and link.                                     *)
C13_KeyIsTitleAndLink ==
    mpc # "input" =>
        /\ \A i, j \in DOMAIN mOnce : i < j => ~TitleAndLink(mOnce[i], mOnce[j])
        /\ \A i \in DOMAIN mbatch : \E k \in DOMAIN mOnce : TitleAndLink(mOnce[k], mbatch[i])
        /\ \A k \in DOMAIN mOnce : \E i \in DOMAIN mbatch :
                /\ mbatch[i] = mOnce[k]
                /\ \A j \in 1..(i - 1) : ~TitleAndLink(mbatch[j], mbatch[i])

\* one source gave a title under two links and both records are kept; two
\* sources gave a title under one link and the record of the first is kept
C13_Witness ==
    /\ mpc # "input"
    /\ \E i, j \in DOMAIN mOnce :
            i < j /\ TitleAndSource(mOnce[i], mOnce[j]) /\ mOnce[i].link # mOnce[j].link
    /\ \E i, j \in DOMAIN mbatch :
            /\ i < j /\ TitleAndLink(mbatch[i], mbatch[j])
            /\ mbatch[i].source # mbatch[j].source
            /\ \A k \in DOMAIN mOnce : mOnce[k] # mbatch[j]

----------------------------------------------------------------------------
(* C14: the list a completed aggregation returns is ordered by publish     *)
(* time, newest first, and records of equal publish time keep the order    *)
(* in which their sources were merged.                                     *)
Pos(q, a) == CHOOSE i \in DOMAIN q : q[i] = a /\ \A j \in 1..(i - 1) : q[j] # a

C14_NewestFirstStable ==
    spc = "sorted" =>
        \A i, j \in DOMAIN sOut :
            (i < j /\ validDate(sOut[i]) /\ validDate(sOut[j])) =>
                \/ sOut[i].pubDate > sOut[j].pubDate
                \/ /\ sOut[i].pubDate = sOut[j].pubDate
                   /\ Pos(sIn, sOut[i]) < Pos(sIn, sOut[j])

----------------------------------------------------------------------------
(* C15: no two records of a list that the aggregate entry point returns    *)
(* have the same id, whatever the feed items are, items that share a link  *)
(* and differ in title included.                                           *)
C15_IdsUnique ==
    mpc # "input" =>
        \A i, j \in DOMAIN mOnce : i # j => mOnce[i].id # mOnce[j].id

----------------------------------------------------------------------------
(* C7 as stated: when source 1 returns [A@T1], source 2 returns            *)
(* [A@T1, B@T2] with T2 > T1 and no other source delivers, the run returns *)
(* exactly [B, A].                                                         *)
SharedStoryInput ==
    /\ LiveRunDone /\ NoSinkException
    /\ answers[1] = Feed(<<ItemA1>>)
    /\ answers[2] \in {Feed(<<ItemA1, ItemB>>), Feed(<<ItemA2, ItemB>>)}
    /\ \A s \in Sources \ {1, 2} : answers[s].kind \in {"neterr", "timeout"}

C7_SharedStoryOnce ==
    SharedStoryInput => (outcome = "resolved" /\ Titles(returned) = <<"B", "A">>)

(* C7 amended: in the revision that filters duplicates (part_006), when    *)
(* source 1 returns [A@T1] and source 2 returns [A@T1, B@T2], A under the  *)
(* same link in both, the run returns exactly [B, A], A being the record   *)
(* of source 1; when the two A records differ in their link, both are      *)
(* kept and the run returns three records.                                 *)
C7_SameLinkOnce ==
    (SharedStoryInput /\ variant = "limited") =>
        /\ outcome = "resolved"
        /\ answers[2] = Feed(<<ItemA1, ItemB>>) =>
                (Titles(returned) = <<"B", "A">> /\ returned[2].source = 1)
        /\ answers[2] = Feed(<<ItemA2, ItemB>>) =>
                Titles(returned) = <<"B", "A", "A">>

C7_Witness ==
    /\ SharedStoryInput /\ variant = "limited"
    /\ answers[2] = Feed(<<ItemA1, ItemB>>)
    /\ Titles(returned) = <<"B", "A">>

----------------------------------------------------------------------------
(* C8: a run issues no fetch for a source exactly when, at the start of    *)
(* the run, the successRate of the source is below 0.1, its                *)
(* consecutiveFailures exceed 3 and its last success lies more than 5      *)
(* minutes back; when one of the three fails the source is fetched.        *)
C8_SkippedExactlyWhenSkippable ==
    \A s \in SMSources :
        smFetch[s] # "none" =>
            (smFetch[s] = "skipped"
                <=> (/\ smSeen[s].successRate < 10
                     /\ smSeen[s].consecutiveFailures > 3
                     /\ smStarted - smSeen[s].lastSuccessAt > 5))

\* successRate 0.05 and 4 failures in a row: the source that last succeeded
\* 10 minutes ago is skipped, the one that did so 1 minute ago is fetched
C8_Witness ==
    /\ smRuns = 1
    /\ smSeen[1] = [successRate |-> 5, consecutiveFailures |-> 4,
                    lastSuccessAt |-> smStarted - 10]
    /\ smSeen[2] = [successRate |-> 5, consecutiveFailures |-> 4,
                    lastSuccessAt |-> smStarted - 1]
    /\ smFetch[1] = "skipped"
    /\ smFetch[2] = "fetched"

----------------------------------------------------------------------------
(* C9: the order in which a run fetches the sources, and the split into    *)
(* the priority and the remaining tier, do not depend on what earlier      *)
(* fetches did: every run issues its fetches in the configured order, the  *)
(* priority tier being the first PRIORITY_COUNT sources, so that a run     *)
(* and the run before it agree on the order as far as both got.            *)
C9_SameSourceOrder ==
    /\ \A i \in DOMAIN issued : issued[i] = i
    /\ \A i \in DOMAIN issued \cap DOMAIN prevIssued : issued[i] = prevIssued[i]
    /\ (variant = "progressive" /\ pc = "priority") => Len(issued) = PRIORITY_COUNT
    /\ (variant = "progressive" /\ pc = "remaining") => Len(issued) = NumSources

\* the second run fetches after a first run in which sources failed
C9_Witness ==
    /\ variant = "progressive"
    /\ runNo = 2
    /\ pc = "remaining"
    /\ Len(prevIssued) = NumSources
    /\ issued = prevIssued

\* the records of a list
Records(q) == {q[i] : i \in DOMAIN q}

\* the run resolved to the freshly fetched list: every record it returned
\* was fetched by this run, and every fetched story is among them
FreshList ==
    LET got == Records(flat(fetched, 1, NumSources))
    IN  /\ Records(returned) \subseteq got
        /\ \A a \in got : \E b \in Records(returned) : TitleAndLink(a, b)

\* C16: a run whose storage write failed still resolves, and to the freshly
\* fetched list, as it does when the write succeeds.
C16_WriteFailureHidden ==
    (pc = "done" /\ written \notin {"none", "ok"}) =>
        (outcome = "resolved" /\ FreshList)

----------------------------------------------------------------------------
\* some source of the run failed (an error of every relay, or the deadline)
\* and some source delivered records
SomeFailed == \E s \in Sources : answers[s].kind \in {"neterr", "timeout"}
SomeDelivered == \E s \in Sources : fetched[s].ok /\ Len(fetched[s].value) > 0

\* C17: when some sources fail and others succeed, the run resolves, every
\* record of a succeeding source is in the returned list (or, where
\* duplicates are removed, a record of the same title and link is), and no
\* returned record names a failing source.
C17_PartialFailureKeepsOthers ==
    (LiveRunDone /\ NoSinkException /\ SomeFailed /\ SomeDelivered) =>
        /\ outcome = "resolved"
        /\ \A s \in Sources : fetched[s].ok =>
                \A a \in Records(fetched[s].value) :
                    \E b \in Records(returned) :
                        a = b \/ (variant = "limited" /\ TitleAndLink(a, b))
        /\ \A b \in Records(returned) : answers[b.source].kind = "feed"

\* a rate-limited run in which source 1 was rejected and source 2 delivered
\* two records, both returned
C17_Witness ==
    /\ variant = "limited" /\ LiveRunDone
    /\ tresult[1] = "rejected" /\ tresult[2] = "fulfilled"
    /\ Len(fetched[2].value) = 2
    /\ Records(fetched[2].value) \subseteq Records(returned)

----------------------------------------------------------------------------
\* the run waits for its sources
Fetching == pc \in {"fetching", "priority", "remaining"}

C18_ParallelCannotStall == (variant = "parallel" /\ Fetching) ~> (pc = "done")

----------------------------------------------------------------------------
\* the fetch of source s starts in this step
Starts(s) == sstate[s] # "inflight" /\ sstate'[s] = "inflight"

\* ... and s is not of the first batch (or tier)
StartsLater(s) == Starts(s) /\ batchOf(s) > 0

\* source e belongs to an earlier batch (or tier) than source s
Earlier(e, s) == batchOf(e) < batchOf(s)

\* when the fetch of s starts, every fetch of the earlier batches has
\* settled and its records are in the accumulated list
SettledAndMerged(s) ==
    \A e \in Sources : Earlier(e, s) =>
        /\ Done(sstate[e])
        /\ Records(flat(fetched, e, e)) \subseteq Records(allArticles')

\* ... and a snapshot with these records has been given to the sink
Emitted(s) ==
    \E i \in DOMAIN snapshots' :
        \A e \in Sources : Earlier(e, s) =>
            Records(flat(fetched, e, e)) \subseteq Records(snapshots'[i].articles)

\* C19 as stated: no fetch of a later batch or tier starts before the fetches
\* of the earlier ones have settled and their results are merged into the
\* accumulated list and emitted.
C19_MergedAndEmittedFirst ==
    [][\A s \in Sources : StartsLater(s) => (SettledAndMerged(s) /\ Emitted(s))]_vars

\* C19 amended: ... have settled and their results are merged into the
\* accumulated list; fetchNewsProgressively has emitted them as well, the
\* batched fetchNewsFromAllSources has no sink to emit to.
C19_MergedFirst ==
    [][\A s \in Sources : StartsLater(s) =>
            /\ SettledAndMerged(s)
            /\ variant = "progressive" => Emitted(s)]_vars

\* the second batch is in flight and the records of the first are in the
\* accumulated list
C19_Witness ==
    /\ variant = "batched" /\ pc = "fetching"
    /\ \E s \in Sources : batchOf(s) = 1 /\ sstate[s] = "inflight"
    /\ Len(allArticles) > 0
    /\ \A e \in Sources : batchOf(e) = 0 =>
            Records(flat(fetched, e, e)) \subseteq Records(allArticles)

----------------------------------------------------------------------------
\* C20: a run of fetchNewsProgressively that returns has emitted exactly one
\* snapshot with isComplete = true: the last one, holding the returned list;
\* every snapshot before it has isComplete = false.  (Stated for runs in
\* which the sink raises no exception.)
C20_OneCompleteSnapshotLast ==
    (variant = "progressive" /\ pc = "done" /\ runNo > 0
        /\ outcome = "resolved" /\ NoSinkException) =>
        /\ Len(snapshots) > 0
        /\ snapshots[Len(snapshots)].isComplete
        /\ snapshots[Len(snapshots)].articles = returned
        /\ \A i \in 1..(Len(snapshots) - 1) : ~snapshots[i].isComplete

----------------------------------------------------------------------------
\* source s is among the sources the run has started to fetch
Issued(s) == \E i \in DOMAIN issued : issued[i] = s

----------------------------------------------------------------------------
\* the step is an invocation that finds the entry fresh, with a sink that
\* returns
FreshInvocation ==
    /\ runNo' = runNo + 1
    /\ cacheData.present
    /\ isValid(variant, cacheTs, clock)
    /\ \A i \in DOMAIN snapshots' : ~snapshots'[i].threw

\* C22 as stated: after a live run without a failed write the cached payload
\* is the returned list, the empty list included.
C22_PayloadIsReturnedList ==
    (LiveRunDone /\ NoSinkException /\ written \in {"ok", "none"}) =>
        cacheData = Cached(returned)

\* C22 amended: after a live run whose writes were made and succeeded the
\* cached payload is the returned list, which is not empty, and an
\* invocation that finds this entry fresh returns the same list and starts
\* no fetch.
C22_WrittenPayloadIsReturned ==
    /\ [](LiveRunDone /\ written = "ok" =>
            cacheData = Cached(returned) /\ Len(returned) > 0)
    /\ [][(LiveRunDone /\ written = "ok" /\ FreshInvocation) =>
            /\ pc' = "done" /\ outcome' = "resolved"
            /\ returned' = returned
            /\ issued' = <<>>
            /\ \A s \in Sources : sstate'[s] = "idle"]_vars

\* the second run returned, from the cache, the list the first run fetched
\* and stored
C22_Witness ==
    /\ runNo = 2 /\ viaCache /\ pc = "done"
    /\ Len(returned) > 0
    /\ returned[1].id.run = 1
    /\ cacheData = Cached(returned)

----------------------------------------------------------------------------
\* C23: fetchRssFeed yields the empty list only when every relay was tried
\* and failed, and yields records when a relay delivered a feed with items.
C23_EmptyOnlyWhenAllFail ==
    (fpc = "resolved" /\ fvalue = <<>>) =>
        \A i \in DOMAIN frelay : frelay[i] = "failed"

----------------------------------------------------------------------------
\* the records that a fetch of source s made in the current run
FromThisRun(q, s) == {a \in Records(q) : a.source = s /\ a.id.run = runNo}

\* C24: once the deadline of a source has fired in a run, no record that the
\* source's fetch of this run produces is in the returned list or in the
\* cached payload.
C24_LateRecordsDropped ==
    \A s \in Sources : sstate[s] \in {"late", "lateDone"} =>
        /\ FromThisRun(returned, s) = {}
        /\ FromThisRun(cacheData.list, s) = {}

\* a run has stored and returned the records of the other sources after
\* the fetch of a source that missed its deadline had settled
C24_Witness ==
    /\ variant = "parallel" /\ pc = "done" /\ written = "ok"
    /\ \E s \in Sources : sstate[s] = "lateDone"
    /\ Len(returned) > 0
    /\ cacheData.list = returned

----------------------------------------------------------------------------
\* the tasks that hold a slot: started, and their finally block has not run
Holding == {t \in RLTasks : tstate[t] \in {"running", "finishing"}}

\* C25: the running count is the number of tasks that hold a slot, so it is
\* never negative and a slot is given back once per task, rejected or not;
\* when every submitted task is through, the count is 0 and the queue is
\* empty; the promise of add() settles the way the task did.
C25_SlotsAccounted ==
    /\ running >= 0
    /\ running = Cardinality(Holding)
    /\ (\A t \in RLTasks : tstate[t] \in {"new", "done"}) =>
            (running = 0 /\ queue = <<>>)
    /\ \A t \in RLTasks : tresult[t] = taskEnd[t]

\* every task was submitted and is through, one of them rejected
C25_Witness ==
    /\ \A t \in RLTasks : tstate[t] = "done"
    /\ \E t \in RLTasks : taskEnd[t] = "rejected" /\ tresult[t] = "rejected"
    /\ \E t \in RLTasks : taskEnd[t] = "fulfilled"
    /\ running = 0 /\ queue = <<>>

----------------------------------------------------------------------------
\* C26: a run whose live fetch yields no record leaves the cached payload
\* and the cached timestamp as the run found them.
C26_EmptyResultKeepsCache ==
    (LiveRunDone /\ NoSinkException /\ Len(flat(fetched, 1, NumSources)) = 0) =>
        /\ cacheData = cacheAtStart.data
        /\ cacheTs = cacheAtStart.ts

----------------------------------------------------------------------------
\* C27: the stored timestamp was written by the run that wrote the stored
\* payload, and no cache write moves the stored timestamp backwards.
C27_StampOfPayload ==
    /\ [](cacheBy.data = cacheBy.ts)
    /\ [][cacheTs' >= cacheTs]_vars

----------------------------------------------------------------------------
\* the run found a fresh timestamp and a payload that does not parse
CorruptAtStart ==
    /\ runNo > 0
    /\ cacheAtStart.data.present /\ ~cacheAtStart.data.parses
    /\ isValid(variant, cacheAtStart.ts, now)

\* C28: with a fresh timestamp and a payload that cannot be parsed the entry
\* point does not throw; it fetches and returns what it fetched.
C28_CorruptPayloadFetchesLive ==
    (CorruptAtStart /\ NoSinkException) =>
        /\ outcome # "rejected"
        /\ ~viaCache
        /\ pc = "done" => FreshList

----------------------------------------------------------------------------
\* the fetchWithRetry call for the current relay is over: fetchRssFeed has
\* finished or has gone on to the next relay
CallEnds ==
    \/ fpc' \in {"resolved", "rejected"}
    \/ fcur' = fcur + 1

\* the call sleeps before one more request to the same relay
CallRetries ==
    /\ fcur' = fcur
    /\ fpc' = "sleeping"
    /\ fattempt' = fattempt + 1
    /\ freqs' = freqs

\* what the answer to a request of fetchWithRetry leads to
AnswerHandled ==
    (fv = "retry" /\ fpc = "waiting") =>
        IF \/ fanswer' \in {"empty", "garbage", "feed"}
           \/ fanswer' = "http404"
           \/ fattempt = MAX_RETRIES
        THEN CallEnds
        ELSE CallRetries

\* C29: one call of fetchWithRetry makes at most maxRetries + 1 requests; a
\* string response or an HTTP 404 ends the call with no further request, and
\* any other failure is retried until the last attempt, whose error ends it.
C29_RetryBounded ==
    /\ [](fv = "retry" => (freqs <= fattempt + 1 /\ fattempt <= MAX_RETRIES))
    /\ [][AnswerHandled]_vars

\* the third request of one call has failed and the last relay is used up
C29_Witness ==
    /\ fv = "retry"
    /\ freqs = MAX_RETRIES + 1
    /\ fanswer \in {"neterr", "nonstring"}
    /\ fpc = "rejected"

----------------------------------------------------------------------------
\* C30: savedArticles never holds two articles with one id; saving an
\* article whose id is in the list leaves the list as it is, and
\* removeFromSaved(id) leaves no article with that id and keeps every other
\* article.
C30_SavedIdsDistinct ==
    /\ [](\A i, j \in DOMAIN savedArticles :
            savedArticles[i].id = savedArticles[j].id => i = j)
    /\ [][(svLast'.op = "save" /\ HasId(savedArticles, svLast'.id)) =>
                savedArticles' = savedArticles]_vars
    /\ [][svLast'.op = "remove" =>
            /\ ~HasId(savedArticles', svLast'.id)
            /\ \A a \in SavedInputs : a.id # svLast'.id =>
                    /\ (\E k \in DOMAIN savedArticles : savedArticles[k] = a)
                         <=> (\E k \in DOMAIN savedArticles' : savedArticles'[k] = a)
            /\ Len(savedArticles') =
                    Len(savedArticles) - (IF HasId(savedArticles, svLast'.id) THEN 1 ELSE 0)]_vars

\* an article was saved whose id the list of two already held
C30_Witness ==
    /\ svLast.op = "save"
    /\ svLast.had
    /\ Len(savedArticles) = 2

====
